---- MODULE Spec2Model ----
(***************************************************************************)
(* A model of OSaSP-lab03: the race-observation probe (src/src/child.c)    *)
(* and the process supervisor (src/src/parent.c).                          *)
(*                                                                         *)
(* ProbeSpec is one probe process: its main context, cut at every point    *)
(* where a signal can preempt it, the SIGALRM handler, and the SIGUSR1 /   *)
(* SIGUSR2 signals its parent sends.                                       *)
(*                                                                         *)
(* Spec is the supervisor: its main context (setup, the command loop, the  *)
(* commands, the atexit cleanup), its signal handler, and the part of the  *)
(* operating system it talks to: the process table behind fork(), kill()   *)
(* and waitpid().  SpecTwice is Spec with cleanup_resources called once    *)
(* more after it has returned.                                             *)
(***************************************************************************)
EXTENDS Integers, Sequences, FiniteSets, TLC

\* ------------------------------------------------------------------ bounds

\* child.c:22 sets 10001; the model runs the same loop with a small budget,
\* large enough for one run to sample each of the four pairs.
NUM_REPETITIONS == 4

\* Process identifiers the operating system hands out, and hands out again
\* once their process has been reaped.
MaxPid == 2

\* The command loop stops spawning at this many tracked children; the size
\* check of add_child_pid stops the registry earlier.
MaxChildren == 5

\* SIZE_MAX of <stdint.h>, scaled down with the capacities: the array can
\* double once from INITIAL_CHILD_CAPACITY, and the size check of
\* add_child_pid stops the second doubling.
SIZE_MAX == 16

\* sizeof(pid_t)
SizeofPid == 4

\* parent.c:25 sets 8; the model starts smaller so that a few spawns make
\* add_child_pid grow the array.
INITIAL_CHILD_CAPACITY == 2

\* How many times SpecTwice runs cleanup_resources.
MaxCleanupRuns == 2

\* The environment delivers at most this many termination signals.
MaxTermSignals == 2

\* sizeof(list_buf) of list_children, counted in formatted lines: parent.c:867
\* has 4096 bytes; the model's buffer is full one entry before the registry is.
LIST_BUF == 7

Pids == 1 .. MaxPid

\* ------------------------------------------------------------ probe state

VARIABLES
    c_pc,                \* position of the probe's main context in main()
    g_shared_pair,       \* [v1, v2]
    g_count00, g_count01, g_count10, g_count11,
    g_alarm_flag,
    g_repetitions_done,
    g_output_enabled,
    current_state,       \* main's local: 0 writes {0,0} next, 1 writes {1,1}
    timer_armed,         \* ITIMER_REAL holds a pending one-shot expiry
    usr1_disp, usr2_disp,\* disposition of SIGUSR1 / SIGUSR2 in the probe
    c_stdout,            \* the stats lines written to stdout
    c_stderr,            \* the suppression notices written to stderr
    rearm_failed,        \* the loop was left by the break of line 128
    last_sent            \* the last control signal the parent sent, and
                         \* the last one handle_usr_signals ran for

\* ------------------------------------------------------- supervisor state

VARIABLES
    p_pc,                \* position of the supervisor's main context
    g_child_pids,        \* the first g_child_count entries of the array
    g_child_capacity,
    pids_alloc,          \* g_child_pids != NULL
    g_terminate_flag,
    stdin_tty,           \* isatty(STDIN_FILENO)
    orig_termios_set,    \* tcgetattr has filled g_orig_termios
    term_mode,           \* "normal" or "raw"
    handlers_installed,  \* handle_signal is registered
    term_notices,        \* messages handle_signal has written to stderr
    proc,                \* the process table: what each identifier names
    sigchld_pending,     \* a SIGCHLD is pending for the supervisor
    k_i,                 \* loop variable i of kill_all_children / signal_all_children
    k_sig,               \* the signal the running loop sends
    signaled_count, esrch_count,
    exit_status,
    cleanup_runs,        \* calls of cleanup_resources so far
    last_op              \* the operation in progress or last completed:
                         \* its name, the registry when it started, the
                         \* identifier and result it is about, the kill()
                         \* calls it made, the line it printed on stdout
                         \* and the numbers in that line, the capacity and
                         \* the terminal mode when it started, the signals
                         \* a launch reset and the dispositions the new
                         \* process starts with

registry == <<g_child_pids, g_child_capacity, pids_alloc>>
terminal == <<stdin_tty, orig_termios_set, term_mode>>
os == <<proc, sigchld_pending>>
loop_vars == <<k_i, k_sig, signaled_count, esrch_count>>
signals == <<handlers_installed, term_notices>>

sup_vars == <<p_pc, registry, g_terminate_flag, terminal, signals,
              os, loop_vars, exit_status, cleanup_runs, last_op>>

probe_vars == <<c_pc, g_shared_pair, g_count00, g_count01, g_count10, g_count11,
                g_alarm_flag, g_repetitions_done, g_output_enabled,
                current_state, timer_armed, usr1_disp, usr2_disp,
                c_stdout, c_stderr, rearm_failed, last_sent>>

vars == <<probe_vars, sup_vars>>

\* ------------------------------------------------------------------ probe

\* The static globals are zero when the image starts; SIGUSR1 and SIGUSR2
\* are ignored, the disposition the parent set for itself before fork()
\* and that fork() and execv() hand on.
ProbeInit ==
    /\ c_pc = "init"
    /\ g_shared_pair = [v1 |-> 0, v2 |-> 0]
    /\ g_count00 = 0 /\ g_count01 = 0 /\ g_count10 = 0 /\ g_count11 = 0
    /\ g_alarm_flag = 0
    /\ g_repetitions_done = 0
    /\ g_output_enabled = 0
    /\ current_state = 0
    /\ timer_armed = FALSE
    /\ usr1_disp = "ign" /\ usr2_disp = "ign"
    /\ c_stdout = <<>>
    /\ c_stderr = 0
    /\ rearm_failed = FALSE
    /\ last_sent = [sig |-> "none", in_time |-> FALSE, delivered |-> "none"]

\* initialize_globals
initialize_globals ==
    /\ c_pc = "init"
    /\ g_shared_pair' = [v1 |-> 0, v2 |-> 0]
    /\ g_count00' = 0 /\ g_count01' = 0 /\ g_count10' = 0 /\ g_count11' = 0
    /\ g_alarm_flag' = 0
    /\ g_repetitions_done' = 0
    /\ g_output_enabled' = 1
    /\ c_pc' = "reg_alrm"
    /\ UNCHANGED <<current_state, timer_armed, usr1_disp, usr2_disp,
                   c_stdout, c_stderr, rearm_failed, last_sent>>

probe_data == <<g_shared_pair, g_count00, g_count01, g_count10, g_count11,
                g_alarm_flag, g_repetitions_done, g_output_enabled>>

\* register_signal_handlers: three sigaction calls in turn; a failing one
\* makes main return EXIT_FAILURE.
register_signal_handlers ==
    /\ c_pc \in {"reg_alrm", "reg_usr1", "reg_usr2"}
    /\ \E ok \in BOOLEAN :
         IF ~ok
         THEN /\ c_pc' = "failed"
              /\ UNCHANGED <<usr1_disp, usr2_disp>>
         ELSE /\ c_pc' = CASE c_pc = "reg_alrm" -> "reg_usr1"
                           [] c_pc = "reg_usr1" -> "reg_usr2"
                           [] OTHER -> "first_timer"
              /\ usr1_disp' = IF c_pc = "reg_usr1" THEN "handler" ELSE usr1_disp
              /\ usr2_disp' = IF c_pc = "reg_usr2" THEN "handler" ELSE usr2_disp
    /\ UNCHANGED <<probe_data, current_state, timer_armed,
                   c_stdout, c_stderr, rearm_failed, last_sent>>

\* setup_timer: a one-shot ITIMER_REAL (it_interval is zero); setitimer may fail.
setup_timer(ok) == IF ok THEN TRUE ELSE timer_armed

\* main, lines 102-105: the first alarm
first_timer ==
    /\ c_pc = "first_timer"
    /\ \E ok \in BOOLEAN :
         /\ timer_armed' = setup_timer(ok)
         /\ c_pc' = IF ok THEN "outer" ELSE "failed"
    /\ UNCHANGED <<probe_data, current_state, usr1_disp, usr2_disp,
                   c_stdout, c_stderr, rearm_failed, last_sent>>

\* The condition of the outer loop, line 107, and of the re-arm, line 124.
BelowBudgetShort(n) == n < NUM_REPETITIONS - 1
BelowBudget(n) == n < NUM_REPETITIONS

\* main, line 107
outer_loop ==
    /\ c_pc = "outer"
    /\ c_pc' = IF BelowBudget(g_repetitions_done) THEN "clear" ELSE "report"
    /\ UNCHANGED <<probe_data, current_state, timer_armed, usr1_disp, usr2_disp,
                   c_stdout, c_stderr, rearm_failed, last_sent>>

\* main, line 108: the value the main loop gives g_alarm_flag.
reset_alarm_flag_sets(flag) == 1
reset_alarm_flag(flag) == 0

\* main, line 108
clear_flag ==
    /\ c_pc = "clear"
    /\ g_alarm_flag' = reset_alarm_flag(g_alarm_flag)
    /\ c_pc' = "inner"
    /\ UNCHANGED <<g_shared_pair, g_count00, g_count01, g_count10, g_count11,
                   g_repetitions_done, g_output_enabled,
                   current_state, timer_armed, usr1_disp, usr2_disp,
                   c_stdout, c_stderr, rearm_failed, last_sent>>

\* main, line 111
inner_loop ==
    /\ c_pc = "inner"
    /\ c_pc' = IF g_alarm_flag = 0 THEN "write_v1" ELSE "rearm"
    /\ UNCHANGED <<probe_data, current_state, timer_armed, usr1_disp, usr2_disp,
                   c_stdout, c_stderr, rearm_failed, last_sent>>

\* The value both fields get in one update, lines 112-120.
PairValueWide(state) == IF state = 0 THEN 0 ELSE 2
PairValue(state) == IF state = 0 THEN 0 ELSE 1

\* main, lines 113-114 and 117-118: the field the first and the second
\* assignment of an update write.
field_written_swapped(step) == IF step = 1 THEN "v2" ELSE "v1"
field_written(step) == IF step = 1 THEN "v1" ELSE "v2"

\* main, lines 113 and 117: the first field write
write_v1 ==
    /\ c_pc = "write_v1"
    /\ g_shared_pair' = [g_shared_pair EXCEPT
                           ![field_written(1)] = PairValue(current_state)]
    /\ c_pc' = "write_v2"
    /\ UNCHANGED <<g_count00, g_count01, g_count10, g_count11,
                   g_alarm_flag, g_repetitions_done, g_output_enabled,
                   current_state, timer_armed, usr1_disp, usr2_disp,
                   c_stdout, c_stderr, rearm_failed, last_sent>>

\* main, lines 114-115 and 118-119: the second field write and the toggle
write_v2 ==
    /\ c_pc = "write_v2"
    /\ g_shared_pair' = [g_shared_pair EXCEPT
                           ![field_written(2)] = PairValue(current_state)]
    /\ current_state' = 1 - current_state
    /\ c_pc' = "inner"
    /\ UNCHANGED <<g_count00, g_count01, g_count10, g_count11,
                   g_alarm_flag, g_repetitions_done, g_output_enabled,
                   timer_armed, usr1_disp, usr2_disp,
                   c_stdout, c_stderr, rearm_failed, last_sent>>

\* main, lines 125-129: where the loop goes after setup_timer; the break
\* leads to the report.
after_rearm_goes_on(ok) == "outer"
after_rearm(ok) == IF ok THEN "outer" ELSE "report"

\* main, lines 123-130
rearm ==
    /\ c_pc = "rearm"
    /\ IF BelowBudget(g_repetitions_done)
       THEN \E ok \in BOOLEAN :
              /\ timer_armed' = setup_timer(ok)
              /\ c_pc' = after_rearm(ok)
              /\ rearm_failed' = (rearm_failed \/ ~ok)
       ELSE /\ c_pc' = "outer"
            /\ UNCHANGED <<timer_armed, rearm_failed>>
    /\ UNCHANGED <<probe_data, current_state, usr1_disp, usr2_disp,
                   c_stdout, c_stderr, last_sent>>

\* main, line 135: the channel the value of g_output_enabled selects.
report_channel_stdout(gate) == "stdout"
report_channel(gate) == IF gate # 0 THEN "stdout" ELSE "stderr"

\* main, lines 134-157
emit_report ==
    /\ c_pc = "report"
    /\ IF report_channel(g_output_enabled) = "stdout"
       THEN /\ c_stdout' = Append(c_stdout, [n00 |-> g_count00, n01 |-> g_count01,
                                             n10 |-> g_count10, n11 |-> g_count11])
            /\ UNCHANGED c_stderr
       ELSE /\ c_stderr' = c_stderr + 1
            /\ UNCHANGED c_stdout
    /\ c_pc' = "done"
    /\ UNCHANGED <<probe_data, current_state, timer_armed, usr1_disp, usr2_disp,
                   rearm_failed, last_sent>>

\* The bucket handle_alarm counts a sampled pair in, lines 199-202.
ClassifyDrop10(a, b) ==
    IF a = 0 /\ b = 0 THEN "00"
    ELSE IF a = 0 /\ b = 1 THEN "01"
    ELSE IF a = 1 /\ b = 0 THEN "none"
    ELSE "11"
Classify(a, b) ==
    IF a = 0 /\ b = 0 THEN "00"
    ELSE IF a = 0 /\ b = 1 THEN "01"
    ELSE IF a = 1 /\ b = 0 THEN "10"
    ELSE "11"

\* handle_alarm, lines 204-206: the repetition is counted while the budget
\* is not reached.
count_repetition_never(n) == n
count_repetition(n) == IF n < NUM_REPETITIONS THEN n + 1 ELSE n

\* setup_timer, lines 310-311: it_interval is zero, so the timer that has
\* expired is not armed any more.
timer_after_expiry_periodic(armed) == armed
timer_after_expiry(armed) == FALSE

\* handle_alarm: runs to completion when the armed one-shot timer expires.
handle_alarm ==
    /\ timer_armed
    /\ c_pc \notin {"done", "failed"}
    /\ timer_armed' = timer_after_expiry(timer_armed)
    /\ LET local_v1 == g_shared_pair.v1
           local_v2 == g_shared_pair.v2
           bucket == Classify(local_v1, local_v2)
       IN /\ g_count00' = IF bucket = "00" THEN g_count00 + 1 ELSE g_count00
          /\ g_count01' = IF bucket = "01" THEN g_count01 + 1 ELSE g_count01
          /\ g_count10' = IF bucket = "10" THEN g_count10 + 1 ELSE g_count10
          /\ g_count11' = IF bucket = "11" THEN g_count11 + 1 ELSE g_count11
    /\ g_repetitions_done' = count_repetition(g_repetitions_done)
    /\ g_alarm_flag' = 1
    /\ UNCHANGED <<c_pc, g_shared_pair, g_output_enabled, current_state,
                   usr1_disp, usr2_disp, c_stdout, c_stderr, rearm_failed, last_sent>>

\* A control signal is delivered, handle_usr_signals runs for it, once
\* register_signal_handlers has installed the handler for it; a signal
\* whose disposition is still SIG_IGN is discarded when it is generated.
Delivered(sig) ==
    IF sig = "SIGUSR1" THEN usr1_disp = "handler" ELSE usr2_disp = "handler"

\* handle_usr_signals, reached only through an installed handler.
handle_usr_signals_toggles(sig) ==
    IF Delivered(sig) THEN 1 - g_output_enabled ELSE g_output_enabled
handle_usr_signals(sig) ==
    IF sig = "SIGUSR1"
    THEN IF Delivered(sig) THEN 1 ELSE g_output_enabled
    ELSE IF Delivered(sig) THEN 0 ELSE g_output_enabled

\* The parent's kill(pid, SIGUSR1 / SIGUSR2), any time the probe exists.
send_usr(sig) ==
    /\ c_pc \notin {"done", "failed"}
    /\ g_output_enabled' = handle_usr_signals(sig)
    /\ last_sent' = [sig |-> sig,
                     in_time |-> g_repetitions_done < NUM_REPETITIONS,
                     delivered |-> IF Delivered(sig) THEN sig
                                   ELSE last_sent.delivered]
    /\ UNCHANGED <<c_pc, g_shared_pair, g_count00, g_count01, g_count10, g_count11,
                   g_alarm_flag, g_repetitions_done, current_state, timer_armed,
                   usr1_disp, usr2_disp, c_stdout, c_stderr, rearm_failed>>

ProbeNext ==
    \/ initialize_globals /\ UNCHANGED sup_vars
    \/ register_signal_handlers /\ UNCHANGED sup_vars
    \/ first_timer /\ UNCHANGED sup_vars
    \/ outer_loop /\ UNCHANGED sup_vars
    \/ clear_flag /\ UNCHANGED sup_vars
    \/ inner_loop /\ UNCHANGED sup_vars
    \/ write_v1 /\ UNCHANGED sup_vars
    \/ write_v2 /\ UNCHANGED sup_vars
    \/ rearm /\ UNCHANGED sup_vars
    \/ emit_report /\ UNCHANGED sup_vars
    \/ handle_alarm /\ UNCHANGED sup_vars
    \/ send_usr("SIGUSR1") /\ UNCHANGED sup_vars
    \/ send_usr("SIGUSR2") /\ UNCHANGED sup_vars

\* ------------------------------------------------------------- supervisor

\* The signals whose disposition the supervisor sets, lines 483-514.
HandledSignals == {"SIGINT", "SIGTERM", "SIGQUIT", "SIGCHLD"}
ControlSignals == {"SIGUSR1", "SIGUSR2"}
NoDisp == [sig \in HandledSignals \cup ControlSignals |-> "none"]

NoOp == [name |-> "none", pre |-> <<>>, cap |-> 0, mode |-> "normal", pid |-> 0,
         res |-> "NONE", sent |-> <<>>, msg |-> "none", report |-> <<>>,
         reset |-> {}, disp |-> NoDisp]

Op(name, pid, res, sent) ==
    [name |-> name, pre |-> g_child_pids, cap |-> g_child_capacity,
     mode |-> term_mode, pid |-> pid, res |-> res, sent |-> sent,
     msg |-> "none", report |-> <<>>, reset |-> {}, disp |-> NoDisp]

\* main is about to call enable_raw_mode: initialize_globals has run, the
\* child executable was found, cleanup_resources is registered with atexit.
\* Whether stdin is a terminal is the environment's choice.
SupInit ==
    /\ p_pc = "enable_raw"
    /\ g_child_pids = <<>>
    /\ g_child_capacity = 0
    /\ pids_alloc = FALSE
    /\ g_terminate_flag = 0
    /\ stdin_tty \in BOOLEAN
    /\ orig_termios_set = FALSE
    /\ term_mode = "normal"
    /\ handlers_installed = FALSE
    /\ term_notices = 0
    /\ proc = [p \in Pids |-> "free"]
    /\ sigchld_pending = FALSE
    /\ k_i = 0
    /\ k_sig = "none"
    /\ signaled_count = 0
    /\ esrch_count = 0
    /\ exit_status = "none"
    /\ cleanup_runs = 0
    /\ last_op = NoOp

Running == p_pc \notin {"exited", "aborted"}

\* exit(status), or main returning status: the atexit handler runs next.
Exit(status) ==
    /\ p_pc' = "cleanup"
    /\ exit_status' = status

\* enable_raw_mode: not a terminal, tcgetattr failing and tcsetattr failing
\* each end in exit(EXIT_FAILURE); tcsetattr that fails changes nothing.
enable_raw_mode ==
    /\ p_pc = "enable_raw"
    /\ IF ~stdin_tty
       THEN /\ Exit("failure")
            /\ UNCHANGED <<orig_termios_set, term_mode>>
       ELSE \E getattr_ok, setattr_ok \in BOOLEAN :
              /\ orig_termios_set' = getattr_ok
              /\ IF getattr_ok /\ setattr_ok
                 THEN /\ term_mode' = "raw"
                      /\ p_pc' = "reg_handlers"
                      /\ UNCHANGED exit_status
                 ELSE /\ Exit("failure")
                      /\ UNCHANGED term_mode
    /\ UNCHANGED <<registry, g_terminate_flag, stdin_tty, signals,
                   os, loop_vars, cleanup_runs, last_op>>

\* register_signal_handlers: a failing sigfillset or sigaction exits.
sup_register_signal_handlers ==
    /\ p_pc = "reg_handlers"
    /\ \E ok \in BOOLEAN :
         IF ok
         THEN /\ handlers_installed' = TRUE
              /\ p_pc' = "alloc"
              /\ UNCHANGED exit_status
         ELSE /\ Exit("failure")
              /\ UNCHANGED handlers_installed
    /\ UNCHANGED <<registry, g_terminate_flag, terminal, term_notices,
                   os, loop_vars, cleanup_runs, last_op>>

\* main, lines 115-122: the first allocation of the array
alloc_registry ==
    /\ p_pc = "alloc"
    /\ \E ok \in BOOLEAN :
         IF ok
         THEN /\ pids_alloc' = TRUE
              /\ g_child_capacity' = INITIAL_CHILD_CAPACITY
              /\ g_child_pids' = <<>>
              /\ p_pc' = "loop"
              /\ UNCHANGED exit_status
         ELSE /\ Exit("failure")
              /\ UNCHANGED registry
    /\ UNCHANGED <<g_terminate_flag, terminal, signals,
                   os, loop_vars, cleanup_runs, last_op>>

\* main, line 138: the loop condition; the loop left, main returns
\* EXIT_SUCCESS. Going round for the next read() ends the record of the
\* last operation.
loop_check ==
    /\ p_pc = "loop"
    /\ IF g_terminate_flag # 0
       THEN Exit("success")
       ELSE /\ p_pc' = "read"
            /\ UNCHANGED exit_status
    /\ last_op' = IF g_terminate_flag # 0 THEN last_op ELSE NoOp
    /\ UNCHANGED <<registry, g_terminate_flag, terminal, signals,
                   os, loop_vars, cleanup_runs>>

\* main, line 139: read() is entered and blocks.
enter_read ==
    /\ p_pc = "read"
    /\ p_pc' = "blocked"
    /\ UNCHANGED <<registry, g_terminate_flag, terminal, signals,
                   os, loop_vars, exit_status, cleanup_runs, last_op>>

\* kill(pid, sig) as the process table answers it: no such process, a
\* process of another user, or a child of ours (running or not yet reaped).
kill_result(pid) ==
    CASE proc[pid] = "free" -> "ESRCH"
      [] proc[pid] = "foreign" -> "EPERM"
      [] OTHER -> "OK"

\* What a delivered SIGKILL does to the process table.
proc_after_sigkill(pid) ==
    IF proc[pid] = "live" THEN [proc EXCEPT ![pid] = "zombie"] ELSE proc

\* The policy of kill_last_child and kill_all_children: the entry goes when
\* kill succeeded or failed with ESRCH, and stays on any other error.
RemoveOnAny(res) == TRUE
RemoveOn(res) == res \in {"OK", "ESRCH"}

\* remove_child_pid_at_index; index counts from 1 here, from 0 in the source.
remove_first(pids, index) ==
    IF index > Len(pids) THEN pids ELSE Tail(pids)
remove_child_pid_at_index(pids, index) ==
    IF index > Len(pids)
    THEN pids
    ELSE SubSeq(pids, 1, index - 1) \o SubSeq(pids, index + 1, Len(pids))

\* add_child_pid: the array doubles when it is full (realloc keeps the
\* entries), then the identifier goes in at index g_child_count. It aborts
\* when doubling would overflow (lines 534-544) and when realloc fails
\* (lines 547-555); only the realloc branch kills and reaps the new child
\* first.
add_child_pid_front(pids, capacity, pid, realloc_ok) ==
    [pids |-> <<pid>> \o pids, capacity |-> capacity, abort |-> FALSE,
     killed |-> FALSE]
add_child_pid(pids, capacity, pid, realloc_ok) ==
    LET new_capacity == IF capacity = 0 THEN INITIAL_CHILD_CAPACITY
                        ELSE capacity * 2
        stay(abort, killed) == [pids |-> pids, capacity |-> capacity,
                                abort |-> abort, killed |-> killed]
    IN IF Len(pids) >= capacity
       THEN IF capacity > SIZE_MAX \div 2 /\ capacity # 0
            THEN stay(TRUE, FALSE)
            ELSE IF new_capacity > SIZE_MAX \div SizeofPid
            THEN stay(TRUE, FALSE)
            ELSE IF ~realloc_ok
            THEN stay(TRUE, TRUE)
            ELSE [pids |-> Append(pids, pid), capacity |-> new_capacity,
                  abort |-> FALSE, killed |-> FALSE]
       ELSE [pids |-> Append(pids, pid), capacity |-> capacity,
             abort |-> FALSE, killed |-> FALSE]

\* spawn_child, lines 752-755: fork() returned -1; the function reports it
\* and returns before anything touches the array.
fork_failed_tracks(pids) == Append(pids, MaxPid)
fork_failed_registry(pids) == pids

\* The disposition the supervisor has for a signal once
\* register_signal_handlers has run: handle_signal, or SIG_IGN for the two
\* control signals.
parent_disposition(sig) ==
    IF ~handlers_installed THEN "default"
    ELSE IF sig \in HandledSignals THEN "handler" ELSE "ign"

\* spawn_child, lines 763-765: the sigaction(sig, SIG_DFL) calls of the
\* child branch.
spawn_resets == {"SIGINT", "SIGTERM", "SIGQUIT"}

\* execv, line 774: a caught signal goes back to its default, an ignored
\* one stays ignored.
execv_keeps(d) == d
execv_disposition(d) == IF d = "handler" THEN "default" ELSE d

\* The disposition the probe image starts with.
probe_start(sig) ==
    execv_disposition(IF sig \in spawn_resets THEN "default"
                      ELSE parent_disposition(sig))

\* spawn_child, the parent's side: fork() fails, or takes a free identifier;
\* then add_child_pid, which may abort, with the new child killed and
\* reaped or still running (abort() runs no atexit handler).
spawn_child ==
    \/ /\ last_op' = [Op("spawn", 0, "FORK_FAILED", <<>>) EXCEPT
                        !.msg = "fork_failed"]
       /\ p_pc' = "loop"
       /\ g_child_pids' = fork_failed_registry(g_child_pids)
       /\ UNCHANGED <<g_child_capacity, pids_alloc, os, exit_status, loop_vars>>
    \/ \E pid \in Pids, realloc_ok \in BOOLEAN :
         /\ proc[pid] = "free"
         /\ UNCHANGED loop_vars
         /\ LET added == add_child_pid(g_child_pids, g_child_capacity, pid, realloc_ok)
            IN IF added.abort
               THEN /\ p_pc' = "aborted"
                    /\ exit_status' = "abort"
                    /\ last_op' = Op("spawn", pid, "ABORT",
                                     IF added.killed
                                     THEN <<[pid |-> pid, sig |-> "SIGKILL",
                                             res |-> "OK"]>>
                                     ELSE <<>>)
                    /\ proc' = IF added.killed THEN proc
                               ELSE [proc EXCEPT ![pid] = "live"]
                    /\ UNCHANGED <<registry, sigchld_pending>>
               ELSE /\ p_pc' = "loop"
                    /\ g_child_pids' = added.pids
                    /\ g_child_capacity' = added.capacity
                    /\ proc' = [proc EXCEPT ![pid] = "live"]
                    /\ last_op' = [Op("spawn", pid, "OK", <<>>) EXCEPT
                                     !.reset = spawn_resets,
                                     !.disp = [sig \in DOMAIN NoDisp |->
                                                 probe_start(sig)]]
                    /\ UNCHANGED <<pids_alloc, sigchld_pending, exit_status>>

\* kill_last_child
kill_last_child ==
    /\ p_pc' = "loop"
    /\ UNCHANGED loop_vars
    /\ IF Len(g_child_pids) = 0
       THEN /\ last_op' = Op("kill_last", 0, "EMPTY", <<>>)
            /\ UNCHANGED <<registry, os>>
       ELSE LET last_index == Len(g_child_pids)
                pid_to_kill == g_child_pids[last_index]
                res == kill_result(pid_to_kill)
            IN /\ proc' = proc_after_sigkill(pid_to_kill)
               /\ sigchld_pending' = (sigchld_pending \/ proc[pid_to_kill] = "live")
               /\ g_child_pids' = IF RemoveOn(res)
                                  THEN remove_child_pid_at_index(g_child_pids, last_index)
                                  ELSE g_child_pids
               /\ last_op' = Op("kill_last", pid_to_kill, res,
                                <<[pid |-> pid_to_kill, sig |-> "SIGKILL", res |-> res]>>)
               /\ UNCHANGED <<g_child_capacity, pids_alloc>>
    /\ UNCHANGED exit_status

\* list_children, lines 873-886: the lines formatted before the entries
\* (the title, the parent, the count or "No tracked children").
ListHeaderLines == 3

\* list_children, lines 888-892: how many of n entry lines go into a
\* buffer with room for remaining lines; snprintf needs one place more
\* than the line it writes (ret >= remaining_buf is the overflow).
RECURSIVE entries_fit(_, _)
entries_fit(n, remaining) ==
    IF n = 0 \/ 1 >= remaining THEN 0
    ELSE 1 + entries_fit(n - 1, remaining - 1)

\* list_children: one snapshot, the supervisor's own identifier (0 here)
\* first, then the tracked identifiers that fit the buffer, written with
\* one safe_write; after an overflow, what was formatted so far.
list_children ==
    /\ p_pc' = "loop"
    /\ LET fit == entries_fit(Len(g_child_pids), LIST_BUF - ListHeaderLines)
       IN last_op' = [Op("list", 0, "OK", <<>>) EXCEPT
                        !.msg = IF fit < Len(g_child_pids) THEN "buffer_error"
                                ELSE "list",
                        !.report = <<0>> \o SubSeq(g_child_pids, 1, fit)]
    /\ UNCHANGED <<registry, os, exit_status, loop_vars>>

\* The value i starts from in kill_all_children, line 647.
kill_all_first_short(pids) == Len(pids) - 1
kill_all_first(pids) == Len(pids)

\* kill_all_children, line 636: the empty registry is announced unless the
\* caller is cleanup_resources (reason "Parent exiting.").
announce_never(name) == FALSE
announce_no_children(name) == name # "cleanup"

\* The step of the loop of kill_all_children, line 647.
kill_all_next_skip(i) == i - 2
kill_all_next(i) == i - 1

\* kill_all_children up to its loop: nothing to do on an empty registry.
kill_all_begin(name, loop_pc, after_pc) ==
    /\ last_op' = IF Len(g_child_pids) = 0
                  THEN [Op(name, 0, "EMPTY", <<>>) EXCEPT
                          !.msg = IF announce_no_children(name)
                                  THEN "no_children_to_kill" ELSE "none"]
                  ELSE Op(name, 0, "OK", <<>>)
    /\ IF Len(g_child_pids) = 0 \/ kill_all_first(g_child_pids) = 0
       THEN /\ p_pc' = after_pc
            /\ UNCHANGED loop_vars
       ELSE /\ p_pc' = loop_pc
            /\ k_i' = kill_all_first(g_child_pids)
            /\ k_sig' = "SIGKILL"
            /\ UNCHANGED <<signaled_count, esrch_count>>

\* One turn of the loop of kill_all_children, lines 647-676, and, after the
\* last turn, its closing report.
kill_all_step ==
    /\ p_pc \in {"kill_all", "cleanup_kill"}
    /\ LET current_index == k_i
           pid_to_kill == g_child_pids[current_index]
           res == kill_result(pid_to_kill)
       IN /\ proc' = proc_after_sigkill(pid_to_kill)
          /\ sigchld_pending' = (sigchld_pending \/ proc[pid_to_kill] = "live")
          /\ g_child_pids' = IF RemoveOn(res)
                             THEN remove_child_pid_at_index(g_child_pids, current_index)
                             ELSE g_child_pids
          /\ last_op' = [last_op EXCEPT
                           !.sent = Append(@, [pid |-> pid_to_kill, sig |-> "SIGKILL",
                                               res |-> res])]
    /\ IF kill_all_next(k_i) > 0
       THEN /\ k_i' = kill_all_next(k_i)
            /\ UNCHANGED <<p_pc, k_sig>>
       ELSE /\ k_i' = 0
            /\ k_sig' = "none"
            /\ p_pc' = IF p_pc = "kill_all" THEN "loop" ELSE "cleanup_free"
    /\ UNCHANGED <<g_child_capacity, pids_alloc, g_terminate_flag, terminal,
                   signals, signaled_count, esrch_count,
                   exit_status, cleanup_runs>>

\* The test of line 702 of signal_all_children.
no_children_never(pids) == FALSE
no_children(pids) == Len(pids) = 0

\* signal_all_children leaves the registry alone whatever kill() returns,
\* lines 718-725.
registry_drop_esrch(pids, index, res) ==
    IF res = "ESRCH" THEN remove_child_pid_at_index(pids, index) ELSE pids
registry_after_signal(pids, index, res) == pids

\* The two counters of signal_all_children, lines 715-719: what is the
\* outcome each counts.
tally_any(count, res, outcome) == IF res # "OK" /\ outcome # "OK" THEN count + 1
                                  ELSE IF res = outcome THEN count + 1 ELSE count
tally(count, res, outcome) == IF res = outcome THEN count + 1 ELSE count

\* signal_all_children up to its loop; a loop over no entry goes to the
\* summary at once.
signal_all_begin(sig) ==
    /\ last_op' = IF no_children(g_child_pids)
                  THEN [Op("broadcast", 0, "EMPTY", <<>>) EXCEPT
                          !.msg = "no_children_to_send"]
                  ELSE IF Len(g_child_pids) = 0
                  THEN [Op("broadcast", 0, "OK", <<>>) EXCEPT
                          !.msg = "attempted", !.report = <<0, 0, 0>>]
                  ELSE Op("broadcast", 0, "OK", <<>>)
    /\ IF Len(g_child_pids) = 0
       THEN /\ p_pc' = "loop"
            /\ UNCHANGED loop_vars
       ELSE /\ p_pc' = "broadcast"
            /\ k_i' = 1
            /\ k_sig' = sig
            /\ signaled_count' = 0
            /\ esrch_count' = 0
    /\ UNCHANGED <<registry, os, exit_status>>

\* One turn of the loop of signal_all_children, lines 713-731, and, after
\* the last turn, the summary of line 734: the number of children, the
\* successes and the ESRCH results.
signal_all_step ==
    /\ p_pc = "broadcast"
    /\ LET child_pid == g_child_pids[k_i]
           res == kill_result(child_pid)
           signaled == tally(signaled_count, res, "OK")
           esrch == tally(esrch_count, res, "ESRCH")
           sent == Append(last_op.sent, [pid |-> child_pid, sig |-> k_sig, res |-> res])
           pids == registry_after_signal(g_child_pids, k_i, res)
       IN /\ g_child_pids' = pids
          /\ IF k_i < Len(pids)
             THEN /\ k_i' = k_i + 1
                  /\ signaled_count' = signaled
                  /\ esrch_count' = esrch
                  /\ last_op' = [last_op EXCEPT !.sent = sent]
                  /\ UNCHANGED <<p_pc, k_sig>>
             ELSE /\ k_i' = 0
                  /\ k_sig' = "none"
                  /\ signaled_count' = 0
                  /\ esrch_count' = 0
                  /\ last_op' = [last_op EXCEPT
                                   !.sent = sent,
                                   !.msg = "attempted",
                                   !.report = <<Len(pids), signaled, esrch>>]
                  /\ p_pc' = "loop"
    /\ UNCHANGED <<g_child_capacity, pids_alloc, g_terminate_flag, terminal, signals,
                   os, exit_status, cleanup_runs>>

Commands == {"+", "-", "l", "k", "1", "2", "q", "x"}

\* main, lines 146-180: the case labels of the switch, and its default.
command_of_quits(c) ==
    IF c \in {"+", "-", "l", "k", "1", "2", "q"} THEN c ELSE "q"
command_of(c) ==
    IF c \in {"+", "-", "l", "k", "1", "2", "q"} THEN c ELSE "default"

\* main, lines 189-190: what end of input does to g_terminate_flag.
eof_keeps_flag(flag) == flag
eof_sets_flag(flag) == 1

\* main, lines 141-187: read() returned one character; it is dispatched.
read_char(ch) ==
    /\ p_pc = "blocked"
    /\ LET c == command_of(ch) IN
       CASE c = "+" -> /\ Len(g_child_pids) < MaxChildren
                       /\ spawn_child
                       /\ UNCHANGED g_terminate_flag
         [] c = "-" -> kill_last_child /\ UNCHANGED g_terminate_flag
         [] c = "l" -> list_children /\ UNCHANGED g_terminate_flag
         [] c = "k" -> /\ kill_all_begin("kill_all", "kill_all", "loop")
                       /\ UNCHANGED <<registry, os, exit_status, g_terminate_flag>>
         [] c = "1" -> signal_all_begin("SIGUSR1") /\ UNCHANGED g_terminate_flag
         [] c = "2" -> signal_all_begin("SIGUSR2") /\ UNCHANGED g_terminate_flag
         [] c = "q" -> /\ g_terminate_flag' = 1
                       /\ p_pc' = "loop"
                       /\ last_op' = Op("quit", 0, "OK", <<>>)
                       /\ UNCHANGED <<registry, os, exit_status, loop_vars>>
         [] OTHER   -> /\ p_pc' = "loop"
                       /\ last_op' = Op("ignored", 0, "OK", <<>>)
                       /\ UNCHANGED <<registry, os, exit_status, loop_vars,
                                      g_terminate_flag>>
    /\ UNCHANGED <<terminal, signals, cleanup_runs>>

\* main, lines 188-191: end of input
read_eof ==
    /\ p_pc = "blocked"
    /\ g_terminate_flag' = eof_sets_flag(g_terminate_flag)
    /\ p_pc' = "loop"
    /\ last_op' = Op("eof", 0, "OK", <<>>)
    /\ UNCHANGED <<registry, terminal, signals, os, loop_vars,
                   exit_status, cleanup_runs>>

\* main, line 196: the call of disable_raw_mode is commented out, the
\* terminal mode is left to the atexit handler.
read_error_restores(mode) == IF orig_termios_set THEN "normal" ELSE mode
read_error_mode(mode) == mode

\* main, lines 195-199: read() failed with something other than EINTR;
\* perror reports it in the terminal mode of that moment, then exit().
read_error ==
    /\ p_pc = "blocked"
    /\ Exit("failure")
    /\ term_mode' = read_error_mode(term_mode)
    /\ last_op' = [Op("read_error", 0, "OK", <<>>) EXCEPT
                     !.mode = term_mode', !.msg = "read_error"]
    /\ UNCHANGED <<registry, g_terminate_flag, stdin_tty, orig_termios_set,
                   signals, os, loop_vars, cleanup_runs>>

\* disable_raw_mode: nothing when stdin is no terminal, a warning when
\* g_orig_termios was never filled, else tcsetattr with the saved settings.
disable_raw_mode_noop(mode) == mode
disable_raw_mode(mode) ==
    IF ~stdin_tty THEN mode
    ELSE IF ~orig_termios_set THEN mode
    ELSE "normal"

\* cleanup_resources up to the loop of kill_all_children("Parent exiting.")
cleanup_begin ==
    /\ p_pc = "cleanup"
    /\ term_mode' = disable_raw_mode(term_mode)
    /\ cleanup_runs' = cleanup_runs + 1
    /\ kill_all_begin("cleanup", "cleanup_kill", "cleanup_free")
    /\ UNCHANGED <<registry, g_terminate_flag, stdin_tty, orig_termios_set,
                   signals, os, exit_status>>

\* cleanup_resources, lines 392-397: the array is freed and the three
\* globals are reset, unless the pointer is NULL already.
release_keep_count(pids, capacity, alloc) ==
    [pids |-> pids, capacity |-> capacity, alloc |-> FALSE]
release_registry(pids, capacity, alloc) ==
    IF alloc
    THEN [pids |-> <<>>, capacity |-> 0, alloc |-> FALSE]
    ELSE [pids |-> pids, capacity |-> capacity, alloc |-> alloc]

cleanup_free ==
    /\ p_pc = "cleanup_free"
    /\ LET r == release_registry(g_child_pids, g_child_capacity, pids_alloc)
       IN /\ g_child_pids' = r.pids
          /\ g_child_capacity' = r.capacity
          /\ pids_alloc' = r.alloc
    /\ p_pc' = "exited"
    /\ UNCHANGED <<g_terminate_flag, terminal, signals, os, loop_vars,
                   exit_status, cleanup_runs, last_op>>

\* handle_signal on SIGCHLD: waitpid(-1, NULL, WNOHANG) until it returns no
\* more terminated child. SA_RESTART: a blocked read() goes on.
reap_one(table) ==
    IF \E p \in Pids : table[p] = "zombie"
    THEN [table EXCEPT ![CHOOSE p \in Pids : table[p] = "zombie"] = "free"]
    ELSE table
reap_all(table) == [p \in Pids |-> IF table[p] = "zombie" THEN "free" ELSE table[p]]

\* What handle_signal does to the array on SIGCHLD: it has no statement
\* that names g_child_pids, g_child_count or g_child_capacity.
sigchld_forgets(pids, table) ==
    SelectSeq(pids, LAMBDA q : table[q] # "zombie")
sigchld_registry(pids, table) == pids

handle_sigchld ==
    /\ Running
    /\ handlers_installed
    /\ sigchld_pending
    /\ proc' = reap_all(proc)
    /\ sigchld_pending' = FALSE
    /\ g_child_pids' = sigchld_registry(g_child_pids, proc)
    /\ UNCHANGED <<p_pc, g_child_capacity, pids_alloc, g_terminate_flag, terminal, signals,
                   loop_vars, exit_status, cleanup_runs, last_op>>

\* handle_signal, lines 444-445: one safe_write of the shutdown message;
\* n messages were written before.
termination_notices_none(n) == n
termination_notices(n) == n + 1

\* handle_signal on SIGINT, SIGTERM or SIGQUIT: the flag is set and the
\* message written; a read() it interrupts returns EINTR, and the loop of
\* main goes back to its condition.
handle_termination ==
    /\ Running
    /\ handlers_installed
    /\ term_notices < MaxTermSignals
    /\ g_terminate_flag' = 1
    /\ term_notices' = termination_notices(term_notices)
    /\ p_pc' = IF p_pc = "blocked" THEN "loop" ELSE p_pc
    /\ UNCHANGED <<registry, terminal, handlers_installed, os, loop_vars,
                   exit_status, cleanup_runs, last_op>>

\* A probe ends on its own: it stays in the process table, terminated,
\* until it is waited for, and SIGCHLD is raised.
child_exits(pid) ==
    /\ Running
    /\ proc[pid] = "live"
    /\ proc' = [proc EXCEPT ![pid] = "zombie"]
    /\ sigchld_pending' = TRUE
    /\ UNCHANGED <<p_pc, registry, g_terminate_flag, terminal, signals,
                   loop_vars, exit_status, cleanup_runs, last_op>>

InRegistry(pid) == \E i \in DOMAIN g_child_pids : g_child_pids[i] = pid

\* The operating system gives a freed identifier that the registry still
\* holds to a process of another user, and that process ends.
pid_taken_by_other(pid) ==
    /\ Running
    /\ proc[pid] = "free"
    /\ InRegistry(pid)
    /\ proc' = [proc EXCEPT ![pid] = "foreign"]
    /\ UNCHANGED <<p_pc, registry, g_terminate_flag, terminal, signals,
                   sigchld_pending, loop_vars, exit_status, cleanup_runs, last_op>>

other_exits(pid) ==
    /\ Running
    /\ proc[pid] = "foreign"
    /\ proc' = [proc EXCEPT ![pid] = "free"]
    /\ UNCHANGED <<p_pc, registry, g_terminate_flag, terminal, signals,
                   sigchld_pending, loop_vars, exit_status, cleanup_runs, last_op>>

\* cleanup_resources called again after it has returned.
cleanup_again ==
    /\ p_pc = "exited"
    /\ cleanup_runs < MaxCleanupRuns
    /\ p_pc' = "cleanup"
    /\ UNCHANGED <<registry, g_terminate_flag, terminal, signals,
                   os, loop_vars, exit_status, cleanup_runs, last_op>>

SupNext ==
    \/ enable_raw_mode /\ UNCHANGED probe_vars
    \/ sup_register_signal_handlers /\ UNCHANGED probe_vars
    \/ alloc_registry /\ UNCHANGED probe_vars
    \/ loop_check /\ UNCHANGED probe_vars
    \/ enter_read /\ UNCHANGED probe_vars
    \/ \E c \in Commands : read_char(c) /\ UNCHANGED probe_vars
    \/ read_eof /\ UNCHANGED probe_vars
    \/ read_error /\ UNCHANGED probe_vars
    \/ kill_all_step /\ UNCHANGED probe_vars
    \/ signal_all_step /\ UNCHANGED probe_vars
    \/ cleanup_begin /\ UNCHANGED probe_vars
    \/ cleanup_free /\ UNCHANGED probe_vars
    \/ handle_sigchld /\ UNCHANGED probe_vars
    \/ handle_termination /\ UNCHANGED probe_vars
    \/ \E pid \in Pids : child_exits(pid) /\ UNCHANGED probe_vars
    \/ \E pid \in Pids : pid_taken_by_other(pid) /\ UNCHANGED probe_vars
    \/ \E pid \in Pids : other_exits(pid) /\ UNCHANGED probe_vars

Init == ProbeInit /\ SupInit

Spec == Init /\ [][SupNext]_vars

SpecTwice == Init /\ [][SupNext \/ (cleanup_again /\ UNCHANGED probe_vars)]_vars

ProbeSpec == Init /\ [][ProbeNext]_vars

\* SIGCHLD is blocked only while handle_signal runs (the sa_mask of line
\* 470), and handle_signal returns: a SIGCHLD that stays pending is
\* delivered.
FairSpec == Spec /\ WF_vars(handle_sigchld /\ UNCHANGED probe_vars)

\* The steps of the probe's main context: the process is scheduled, so the
\* statement it stands at is executed.
ProbeMainStep ==
    \/ initialize_globals
    \/ register_signal_handlers
    \/ first_timer
    \/ outer_loop
    \/ clear_flag
    \/ inner_loop
    \/ write_v1
    \/ write_v2
    \/ rearm
    \/ emit_report

\* The probe keeps running and an armed timer expires (setup_timer, lines
\* 308-311: ALARM_INTERVAL_US later); the control signals come or not.
ProbeFairSpec ==
    /\ ProbeSpec
    /\ WF_vars(ProbeMainStep /\ UNCHANGED sup_vars)
    /\ WF_vars(handle_alarm /\ UNCHANGED sup_vars)

\* The steps of the supervisor's main context that wait for nothing: all
\* but the return of read(), which needs input or a signal.
SupMainStep ==
    \/ enable_raw_mode
    \/ sup_register_signal_handlers
    \/ alloc_registry
    \/ loop_check
    \/ enter_read
    \/ kill_all_step
    \/ signal_all_step
    \/ cleanup_begin
    \/ cleanup_free

\* The supervisor keeps running and a pending SIGCHLD is delivered; input,
\* termination signals and the ends of children come or not.
LoopFairSpec ==
    /\ Spec
    /\ WF_vars(SupMainStep /\ UNCHANGED probe_vars)
    /\ WF_vars(handle_sigchld /\ UNCHANGED probe_vars)

\* ----------------------------------------------------------------- claims

CountSum == g_count00 + g_count01 + g_count10 + g_count11

\* C1: whenever the probe is at or past its report step, the four outcome
\* counters sum to RepetitionCounter, RepetitionCounter is at most the
\* budget, and a stats line that was printed carries counts with that sum,
\* wherever the timer interrupts fell.
C1_SumEqualsRepetitions ==
    c_pc \in {"report", "done"} =>
        /\ CountSum = g_repetitions_done
        /\ g_repetitions_done <= NUM_REPETITIONS
        /\ \A i \in DOMAIN c_stdout :
             c_stdout[i].n00 + c_stdout[i].n01 + c_stdout[i].n10 + c_stdout[i].n11
               = g_repetitions_done

\* A finished run that printed its line and sampled both torn states.
C1_Witness ==
    /\ c_pc = "done"
    /\ Len(c_stdout) = 1
    /\ g_count01 > 0
    /\ g_count10 > 0

\* C2: a run that reaches the report step without a re-arm failure has
\* counters that sum to the budget exactly, and once RepetitionCounter is at
\* the budget no step changes a counter.
C2_NaturalCompletionSumsToBudget ==
    /\ [](c_pc \in {"report", "done"} /\ ~rearm_failed
            => CountSum = NUM_REPETITIONS /\ g_repetitions_done = NUM_REPETITIONS)
    /\ [][g_repetitions_done = NUM_REPETITIONS
            => UNCHANGED <<g_count00, g_count01, g_count10, g_count11>>]_vars

C2_Witness ==
    /\ c_pc = "done"
    /\ ~rearm_failed
    /\ CountSum = NUM_REPETITIONS

\* C3: in every state of the probe, between the two field writes included,
\* each field of SharedPair is 0 or 1.
C3_PairFieldsAreBits ==
    /\ g_shared_pair.v1 \in {0, 1}
    /\ g_shared_pair.v2 \in {0, 1}

\* The main context stands between the two writes of a {1,1} update.
C3_Witness ==
    /\ c_pc = "write_v2"
    /\ g_shared_pair = [v1 |-> 1, v2 |-> 0]

\* C8: a probe that ran to its budget and whose last control signal from the
\* parent was SIGUSR2, sent before the budget was reached, printed no stats
\* line and printed the suppression notice.
C8_DisableLastSuppresses ==
    (/\ c_pc = "done"
     /\ ~rearm_failed
     /\ last_sent.sig = "SIGUSR2"
     /\ last_sent.in_time)
    => (c_stdout = <<>> /\ c_stderr = 1)

\* C4: after kill_last on a non-empty registry, the registry is one entry
\* shorter when kill() succeeded or failed with ESRCH, and is what it was,
\* size and contents, when kill() failed otherwise.
C4_KillLastRemovalPolicy ==
    (last_op.name = "kill_last" /\ last_op.pre # <<>>) =>
        IF last_op.res \in {"OK", "ESRCH"}
        THEN Len(g_child_pids) = Len(last_op.pre) - 1
        ELSE g_child_pids = last_op.pre

\* kill() on the last entry failed with EPERM and the entry is still there.
C4_Witness ==
    /\ last_op.name = "kill_last"
    /\ last_op.res = "EPERM"
    /\ g_child_pids = last_op.pre
    /\ g_child_pids # <<>>

\* C5: a removing kill_last signals the last-inserted identifier, and only
\* it, and leaves exactly the entries before it, in their order.
C5_KillLastRemovesOnlyLast ==
    (last_op.name = "kill_last" /\ last_op.res \in {"OK", "ESRCH"}) =>
        /\ last_op.pid = last_op.pre[Len(last_op.pre)]
        /\ last_op.sent = <<[pid |-> last_op.pid, sig |-> "SIGKILL", res |-> last_op.res]>>
        /\ g_child_pids = SubSeq(last_op.pre, 1, Len(last_op.pre) - 1)

\* Two different children were tracked, the second was killed, the first
\* is what the registry holds.
C5_Witness ==
    /\ last_op.name = "kill_last"
    /\ last_op.res = "OK"
    /\ Len(last_op.pre) = 2
    /\ last_op.pre[1] # last_op.pre[2]
    /\ g_child_pids = <<last_op.pre[1]>>

\* C6: after a successful spawn the registry is the registry before it with
\* the new identifier appended: one entry more, the earlier ones unchanged.
C6_SpawnAppends ==
    (last_op.name = "spawn" /\ last_op.res = "OK") =>
        /\ g_child_pids = Append(last_op.pre, last_op.pid)
        /\ Len(g_child_pids) = Len(last_op.pre) + 1
        /\ Len(g_child_pids) <= g_child_capacity

\* A spawn that found the array full and made it grow.
C6_Witness ==
    /\ last_op.name = "spawn"
    /\ last_op.res = "OK"
    /\ Len(last_op.pre) = INITIAL_CHILD_CAPACITY
    /\ g_child_capacity = 2 * INITIAL_CHILD_CAPACITY

\* C7: the registry never holds the same identifier twice.
C7_NoDuplicates ==
    \A i, j \in DOMAIN g_child_pids : i # j => g_child_pids[i] # g_child_pids[j]

C10_AllReapedAfterShutdown ==
    (p_pc = "exited" /\ last_op.name = "cleanup") =>
        \A i \in DOMAIN last_op.pre : proc[last_op.pre[i]] \notin {"live", "zombie"}

\* C10, amended: when shutdown has finished, it has sent SIGKILL once for
\* every entry registered at its start, from the last to the first, and
\* the registry is empty; it waits for none of the processes.
C10_AllSignalledAfterShutdown ==
    (p_pc = "exited" /\ last_op.name = "cleanup") =>
        /\ Len(last_op.sent) = Len(last_op.pre)
        /\ \A i \in DOMAIN last_op.pre :
             LET s == last_op.sent[Len(last_op.pre) + 1 - i]
             IN s.pid = last_op.pre[i] /\ s.sig = "SIGKILL"
        /\ g_child_pids = <<>>

\* Shutdown has finished, it had two different children to kill, and one
\* of them is terminated and not reaped.
C10_Witness ==
    /\ p_pc = "exited"
    /\ last_op.name = "cleanup"
    /\ Len(last_op.pre) = 2
    /\ last_op.pre[1] # last_op.pre[2]
    /\ \E i \in DOMAIN last_op.pre : proc[last_op.pre[i]] = "zombie"

\* Number of kill() calls of the operation that ended with result r.
CountRes(sent, r) == Cardinality({i \in DOMAIN sent : sent[i].res = r})

\* C11: a broadcast over an empty registry sends no signal, prints the
\* "no children" line instead of a summary, and leaves the registry empty.
C11_EmptyBroadcast ==
    (last_op.name = "broadcast" /\ last_op.pre = <<>>) =>
        /\ last_op.sent = <<>>
        /\ last_op.msg = "no_children_to_send"
        /\ last_op.report = <<>>
        /\ g_child_pids = <<>>
        /\ p_pc # "broadcast"

C11_Witness ==
    /\ last_op.name = "broadcast"
    /\ last_op.pre = <<>>
    /\ p_pc = "loop"

\* C12: the kill-all command over an empty registry sends no signal,
\* prints the "no children to kill" line and leaves the registry empty.
C12_EmptyKillAll ==
    (last_op.name = "kill_all" /\ last_op.pre = <<>>) =>
        /\ last_op.sent = <<>>
        /\ last_op.msg = "no_children_to_kill"
        /\ g_child_pids = <<>>
        /\ p_pc # "kill_all"

C12_Witness ==
    /\ last_op.name = "kill_all"
    /\ last_op.pre = <<>>
    /\ p_pc = "loop"

\* The entries of pre, from index i on, whose kill() failed with something
\* other than ESRCH; the entry at index i was signalled in turn Len(pre)+1-i.
RECURSIVE KeptFrom(_, _, _)
KeptFrom(pre, sent, i) ==
    IF i > Len(pre) THEN <<>>
    ELSE (IF sent[Len(pre) + 1 - i].res \notin {"OK", "ESRCH"}
          THEN <<pre[i]>> ELSE <<>>) \o KeptFrom(pre, sent, i + 1)

KillAllReturned ==
    \/ last_op.name = "kill_all" /\ p_pc # "kill_all"
    \/ last_op.name = "cleanup" /\ p_pc = "cleanup_free"

\* C13: when kill_all_children returns it has sent one SIGKILL for each
\* entry registered when it started, from the last entry to the first, and
\* the registry holds exactly the entries whose kill() failed with something
\* other than ESRCH, in their original order.
C13_KillAllSendsAndKeeps ==
    KillAllReturned =>
        /\ Len(last_op.sent) = Len(last_op.pre)
        /\ \A i \in DOMAIN last_op.sent :
             /\ last_op.sent[i].pid = last_op.pre[Len(last_op.pre) + 1 - i]
             /\ last_op.sent[i].sig = "SIGKILL"
        /\ g_child_pids = KeptFrom(last_op.pre, last_op.sent, 1)

C13_Witness ==
    /\ last_op.name = "kill_all"
    /\ p_pc = "loop"
    /\ Len(last_op.pre) >= 2
    /\ Len(g_child_pids) = 1
    /\ CountRes(last_op.sent, "OK") >= 1

\* C14: a broadcast sends the one control signal to the entries registered
\* when it started, one kill() each, in registry order, and the registry
\* stays as it was whatever kill() returns.
C14_BroadcastKeepsRegistry ==
    last_op.name = "broadcast" =>
        /\ g_child_pids = last_op.pre
        /\ Len(last_op.sent) <= Len(last_op.pre)
        /\ \A i \in DOMAIN last_op.sent :
             /\ last_op.sent[i].pid = last_op.pre[i]
             /\ last_op.sent[i].sig \in {"SIGUSR1", "SIGUSR2"}
             /\ last_op.sent[i].sig = last_op.sent[1].sig
        /\ p_pc # "broadcast" => Len(last_op.sent) = Len(last_op.pre)

C14_Witness ==
    /\ last_op.name = "broadcast"
    /\ p_pc = "loop"
    /\ Len(last_op.pre) >= 2
    /\ CountRes(last_op.sent, "ESRCH") >= 1
    /\ CountRes(last_op.sent, "OK") >= 1

BroadcastReturned ==
    /\ last_op.name = "broadcast"
    /\ last_op.pre # <<>>
    /\ p_pc # "broadcast"

RECURSIVE SumSeq(_)
SumSeq(q) == IF q = <<>> THEN 0 ELSE Head(q) + SumSeq(Tail(q))

\* C15, as stated: the tallies in the summary of a broadcast over a
\* non-empty registry sum to the number of entries registered at its start.
C15_TalliesSumToRegistered ==
    BroadcastReturned => SumSeq(Tail(last_op.report)) = Len(last_op.pre)

\* C15, amended: the summary gives the number of entries and two tallies,
\* the kill() calls that succeeded and those that failed with ESRCH; they
\* sum to the number of entries less the calls that failed otherwise.
C15_ReportTallies ==
    BroadcastReturned =>
        /\ last_op.msg = "attempted"
        /\ last_op.report = <<Len(last_op.pre),
                              CountRes(last_op.sent, "OK"),
                              CountRes(last_op.sent, "ESRCH")>>
        /\ SumSeq(Tail(last_op.report)) =
               Len(last_op.pre) - CountRes(last_op.sent, "EPERM")

C15_Witness ==
    /\ BroadcastReturned
    /\ CountRes(last_op.sent, "EPERM") >= 1
    /\ CountRes(last_op.sent, "OK") >= 1

\* C16: a run of the SIGCHLD branch of handle_signal leaves the array, its
\* count and its capacity as they were, wherever the main context stands.
C16_SigchldLeavesRegistry ==
    [][handle_sigchld => UNCHANGED registry]_vars

\* The handler has run between two turns of the loop of kill_all_children:
\* a child that loop killed is reaped already and the loop goes on.
C16_Witness ==
    /\ p_pc = "kill_all"
    /\ ~sigchld_pending
    /\ \E i \in DOMAIN last_op.sent :
         /\ last_op.sent[i].res = "OK"
         /\ proc[last_op.sent[i].pid] = "free"

\* C17: a run of the SIGCHLD branch of handle_signal leaves no terminated
\* child unreaped and no running child changed, and, with SIGCHLD delivered,
\* whenever some child is terminated and unreaped there comes a point where
\* none is, or the supervisor has ended.
C17_HandlerReapsAll ==
    /\ [][handle_sigchld =>
            \A p \in Pids : /\ proc'[p] # "zombie"
                            /\ (proc'[p] = "live") = (proc[p] = "live")]_vars
    /\ (\E p \in Pids : proc[p] = "zombie")
          ~> ((\A p \in Pids : proc[p] # "zombie") \/ ~Running)

\* Two children are terminated and none of them has been waited for.
C17_Witness ==
    /\ Running
    /\ sigchld_pending
    /\ Cardinality({p \in Pids : proc[p] = "zombie"}) >= 2

\* C18, as stated: a run of the termination branch of handle_signal writes
\* nothing and changes nothing of the supervisor but the flag.
C18_HandlerOnlySetsFlag ==
    [][handle_termination =>
         UNCHANGED <<registry, terminal, os, loop_vars, exit_status,
                     cleanup_runs, handlers_installed, last_op,
                     term_notices>>]_vars

\* C18, amended: a run of the termination branch of handle_signal sets the
\* flag and writes its one message to stderr; the registry, the terminal,
\* the process table and the rest of the supervisor's data stay as they were.
C18_HandlerSetsFlagAndWrites ==
    [][handle_termination =>
         /\ g_terminate_flag' = 1
         /\ term_notices' = term_notices + 1
         /\ UNCHANGED <<registry, terminal, os, loop_vars, exit_status,
                        cleanup_runs, handlers_installed, last_op>>]_vars

C18_Witness ==
    /\ term_notices >= 1
    /\ g_terminate_flag = 1
    /\ g_child_pids # <<>>
    /\ p_pc = "kill_all"

\* C19, as stated: when add_child_pid makes the supervisor abort, the child
\* just forked has been killed and waited for.
C19_NoAbortWithLiveOrphan ==
    (p_pc = "aborted" /\ last_op.name = "spawn") =>
        /\ proc[last_op.pid] # "live"
        /\ last_op.sent # <<>>

\* C20, as stated: when the supervisor has ended on a fatal path, the
\* terminal is in normal mode and cleanup_resources has run once.
C20_FatalPathsRestoreTerminal ==
    (p_pc \in {"exited", "aborted"} /\ exit_status \in {"failure", "abort"}) =>
        /\ term_mode = "normal"
        /\ cleanup_runs = 1

C22_ForkFailureKeepsRegistry ==
    (last_op.name = "spawn" /\ last_op.res = "FORK_FAILED") =>
        /\ last_op.msg = "fork_failed"
        /\ g_child_pids = last_op.pre
        /\ g_child_capacity = last_op.cap
        /\ last_op.sent = <<>>
        /\ p_pc \in {"loop", "cleanup"}

C22_Witness ==
    /\ last_op.name = "spawn"
    /\ last_op.res = "FORK_FAILED"
    /\ last_op.pre # <<>>
    /\ p_pc = "loop"

\* C23, as stated: the child branch of spawn_child resets every signal the
\* supervisor handles, and the probe starts with the default for each.
C23_EveryHandledSignalReset ==
    (last_op.name = "spawn" /\ last_op.res = "OK") =>
        \A sig \in HandledSignals :
            /\ sig \in last_op.reset
            /\ last_op.disp[sig] = "default"

\* C23, amended: the child branch of spawn_child resets SIGINT, SIGTERM and
\* SIGQUIT and not SIGCHLD; execv puts the caught SIGCHLD back to its
\* default, so the probe starts with the default for all four, and with
\* SIGUSR1 and SIGUSR2 ignored.
C23_ThreeResetAllDefault ==
    (last_op.name = "spawn" /\ last_op.res = "OK") =>
        /\ last_op.reset = HandledSignals \ {"SIGCHLD"}
        /\ \A sig \in HandledSignals : last_op.disp[sig] = "default"
        /\ \A sig \in ControlSignals : last_op.disp[sig] = "ign"

C23_Witness ==
    /\ last_op.name = "spawn"
    /\ last_op.res = "OK"
    /\ proc[last_op.pid] = "live"
    /\ "SIGCHLD" \notin last_op.reset

Counters == [n00 |-> g_count00, n01 |-> g_count01,
             n10 |-> g_count10, n11 |-> g_count11]

\* C24: before the report step the probe has written neither output; after
\* it, exactly one: the stats line with the four counters when
\* g_output_enabled is non-zero, the suppression notice when it is zero.
C24_ExactlyOneOutput ==
    /\ c_pc # "done" => (c_stdout = <<>> /\ c_stderr = 0)
    /\ c_pc = "done" =>
           IF g_output_enabled # 0
           THEN c_stdout = <<Counters>> /\ c_stderr = 0
           ELSE c_stdout = <<>> /\ c_stderr = 1

\* The gate was closed when the loop ended after samples were taken.
C24_Witness ==
    /\ c_pc = "done"
    /\ g_output_enabled = 0
    /\ c_stderr = 1
    /\ CountSum >= 1

\* C25: once a re-arm has failed the probe is at the report step or past
\* it, no timer is armed, no step changes the counters, and the report
\* made is one output, with those counters when it is the stats line.
C25_RearmFailureStillReports ==
    /\ [](rearm_failed =>
             /\ c_pc \in {"report", "done"}
             /\ ~timer_armed
             /\ c_pc = "done" => Len(c_stdout) + c_stderr = 1
             /\ c_stdout # <<>> => c_stdout = <<Counters>>)
    /\ [][rearm_failed' =>
             UNCHANGED <<g_count00, g_count01, g_count10, g_count11,
                         g_repetitions_done>>]_vars

C25_Witness ==
    /\ rearm_failed
    /\ c_pc = "done"
    /\ CountSum >= 1
    /\ CountSum < NUM_REPETITIONS
    /\ c_stdout = <<Counters>>

\* C26: a character that is none of the seven commands changes neither the
\* array nor g_terminate_flag, makes no kill() call and creates no process,
\* and main goes back to the condition of its loop.
C26_UnknownIgnored ==
    [][read_char("x") =>
         /\ UNCHANGED <<registry, g_terminate_flag, os, terminal, signals,
                        loop_vars, exit_status, cleanup_runs>>
         /\ last_op'.name = "ignored"
         /\ last_op'.sent = <<>>
         /\ p_pc' = "loop"]_vars

\* An unknown character was read while children are tracked, and the loop
\* is about to read again.
C26_Witness ==
    /\ last_op.name = "ignored"
    /\ last_op.pre # <<>>
    /\ g_child_pids = last_op.pre
    /\ g_terminate_flag = 0
    /\ p_pc = "loop"

\* C27: end of input and the quit command, taken in the same state, lead
\* to the same state: g_terminate_flag set, main back at the condition of
\* its loop, nothing else changed and no signal sent; the shutdown that
\* follows starts from that one state.
C27_EofAsQuit ==
    [][(read_eof \/ read_char("q")) =>
         /\ g_terminate_flag' = 1
         /\ p_pc' = "loop"
         /\ UNCHANGED <<registry, os, terminal, signals, loop_vars,
                        exit_status, cleanup_runs>>
         /\ last_op'.name \in {"eof", "quit"}
         /\ [last_op' EXCEPT !.name = "quit"] = Op("quit", 0, "OK", <<>>)]_vars

\* End of input was read while children are tracked.
C27_Witness ==
    /\ last_op.name = "eof"
    /\ last_op.pre # <<>>
    /\ g_terminate_flag = 1
    /\ p_pc = "loop"

\* C28, as stated: list leaves the registry as it was and its snapshot is
\* the supervisor's identifier followed by every tracked identifier, in
\* registry order, whatever the size of the registry.
C28_SnapshotHoldsAll ==
    last_op.name = "list" =>
        /\ g_child_pids = last_op.pre
        /\ last_op.report = <<0>> \o last_op.pre

\* C29, as stated: with the probe scheduled and every armed timer
\* expiring, each run leaves the alternation loop: it comes to the report
\* step (a failed re-arm leads there too) or has failed in its setup.
C29_ProbeReachesReport ==
    <>(c_pc \in {"report", "done", "failed"})

\* C30, as stated: once handle_signal has taken a termination request, the
\* supervisor comes to run cleanup_resources (or has aborted), whether or
\* not more input arrives.
C30_RequestEndsLoop ==
    (term_notices >= 1) ~> (cleanup_runs >= 1 \/ p_pc = "aborted")

\* The operations the switch of main starts for a command character.
StartedCommands == {"spawn", "kill_last", "list", "kill_all", "broadcast"}

\* C31, as stated: once g_terminate_flag is set, no return of read() starts
\* a spawn, a kill, a broadcast or a list.
C31_NoDispatchAfterFlag ==
    [][(g_terminate_flag # 0 /\ p_pc = "blocked")
         => last_op'.name \notin StartedCommands]_vars

\* 1 when the condition holds, as the handler adds it to a counter.
One(cond) == IF cond THEN 1 ELSE 0

\* C32: a run of handle_alarm adds 1 to the counter of the pair it read
\* (00, 01, 10, else 11) and nothing to the other three, adds 1 to
\* g_repetitions_done if and only if it was below NUM_REPETITIONS, sets
\* g_alarm_flag, and writes neither g_shared_pair nor g_output_enabled.
C32_AlarmCountsOneSample ==
    [][handle_alarm =>
        LET a == g_shared_pair.v1
            b == g_shared_pair.v2
            is00 == a = 0 /\ b = 0
            is01 == a = 0 /\ b = 1
            is10 == a = 1 /\ b = 0
            is11 == ~(is00 \/ is01 \/ is10)
        IN /\ g_count00' = g_count00 + One(is00)
           /\ g_count01' = g_count01 + One(is01)
           /\ g_count10' = g_count10 + One(is10)
           /\ g_count11' = g_count11 + One(is11)
           /\ g_repetitions_done' =
                g_repetitions_done + One(g_repetitions_done < NUM_REPETITIONS)
           /\ g_alarm_flag' = 1
           /\ UNCHANGED <<g_shared_pair, g_output_enabled>>]_vars

\* The first alarm fell between the two writes of a {1,1} update and was
\* counted as 10; the main context has not moved since.
C32_Witness ==
    /\ c_pc = "write_v2"
    /\ g_shared_pair = [v1 |-> 1, v2 |-> 0]
    /\ g_alarm_flag = 1
    /\ g_count10 = 1
    /\ CountSum = 1
    /\ g_repetitions_done = 1

\* What handle_alarm counts: the four counters and g_repetitions_done.
Tallies == <<g_count00, g_count01, g_count10, g_count11, g_repetitions_done>>

\* C33, as stated: after initialize_globals, only the field writes of the
\* main loop change g_shared_pair, and only handle_alarm changes the
\* counters, g_repetitions_done and g_alarm_flag.
C33_OneWriterEach ==
    [][c_pc # "init" =>
        /\ (g_shared_pair' # g_shared_pair => (write_v1 \/ write_v2))
        /\ (<<Tallies, g_alarm_flag>>' # <<Tallies, g_alarm_flag>> => handle_alarm)]_vars

\* C33, amended: after initialize_globals, only the field writes of the
\* main loop change g_shared_pair and only handle_alarm changes the
\* counters and g_repetitions_done; g_alarm_flag has two writers:
\* handle_alarm alone sets it, and the main loop alone clears it, at the
\* top of a repetition.
C33_FlagHasTwoWriters ==
    [][c_pc # "init" =>
        /\ (g_shared_pair' # g_shared_pair => (write_v1 \/ write_v2))
        /\ (Tallies' # Tallies => handle_alarm)
        /\ (g_alarm_flag' # g_alarm_flag =>
              IF g_alarm_flag' = 1 THEN handle_alarm ELSE clear_flag)]_vars

\* The handler has counted two samples and set the flag each time, and the
\* main loop, which has written {1,1}, has cleared it for the repetition
\* it is in.
C33_Witness ==
    /\ c_pc = "inner"
    /\ g_repetitions_done = 2
    /\ g_alarm_flag = 0
    /\ timer_armed
    /\ g_shared_pair = [v1 |-> 1, v2 |-> 1]

\* C34: the timer becomes armed only in a setup_timer call of main, made
\* with no expiry outstanding and g_repetitions_done below NUM_REPETITIONS,
\* and the re-arm comes after a sample (g_alarm_flag is set, a sample is
\* counted); an expiry disarms the timer and counts exactly one sample; no
\* timer is armed once g_repetitions_done is at NUM_REPETITIONS.
C34_OneShotRearmedBelowBudget ==
    /\ [](c_pc = "rearm" => g_alarm_flag = 1 /\ CountSum >= 1 /\ ~timer_armed)
    /\ [](g_repetitions_done >= NUM_REPETITIONS => ~timer_armed)
    /\ [][timer_armed' /\ ~timer_armed =>
            /\ first_timer \/ rearm
            /\ g_repetitions_done < NUM_REPETITIONS]_vars
    /\ [][handle_alarm => ~timer_armed' /\ CountSum' = CountSum + 1]_vars
    /\ [][CountSum' # CountSum => timer_armed /\ ~timer_armed']_vars

\* The timer has been armed again after the second sample and has not
\* expired yet: two samples for the two armings that expired.
C34_Witness ==
    /\ timer_armed
    /\ c_pc = "outer"
    /\ g_alarm_flag = 1
    /\ CountSum = 2
    /\ g_repetitions_done = 2

Pair(a, b) == [v1 |-> a, v2 |-> b]

\* C35: outside the two field writes of an update g_shared_pair is {0,0}
\* or {1,1}; it is {0,1} only between the writes of a {0,0} update and
\* {1,0} only between the writes of a {1,1} update.
C35_TornOnlyInsideUpdate ==
    /\ c_pc # "write_v2" => g_shared_pair \in {Pair(0, 0), Pair(1, 1)}
    /\ g_shared_pair = Pair(0, 1) => c_pc = "write_v2" /\ current_state = 0
    /\ g_shared_pair = Pair(1, 0) => c_pc = "write_v2" /\ current_state = 1

\* One run in which handle_alarm has observed each of the four pairs.
C35_Witness ==
    /\ g_count00 > 0
    /\ g_count01 > 0
    /\ g_count10 > 0
    /\ g_count11 > 0

====
